---- MODULE Spec2Model ----
(***************************************************************************)
(* EventSystem::Subject (EventSystem.h): a static registry                 *)
(*   myObservers : unordered_map<type_index, vector<Observer*>>*           *)
(* with the three static operations Attach<EventClass>, Detach<EventClass> *)
(* and Notify<EventClass>.  Notify is modelled callback by callback, so    *)
(* that a callback that throws cuts the fan-out short.                     *)
(***************************************************************************)
EXTENDS Integers, Sequences, FiniteSets, TLC

\* Number of Observer objects the embedding program owns.
NumObservers == 3

\* Observer* values handed to Attach / Detach.
Observers == 1..NumObservers

\* Event classes: struct Event, and one class derived from it.
EventTypes == {"Event", "Damage"}

\* std::is_base_of<b, d>: every event class derives from Event.
IsBaseOf(b, d) == b = d \/ b = "Event"

\* An event as Notify receives it: an EventClass& (static type) bound to an
\* object whose most-derived class is dyn.
EventRefs == {r \in [static : EventTypes, dyn : EventTypes] : IsBaseOf(r.static, r.dyn)}

\* typeid(EventClass) of Attach / Detach: the class named at the call.
TypeIdOfClass(c) == c

\* typeid(anEvent) with the static type instead of the dynamic one.
TypeIdStatic(ev) == ev.static

\* typeid(anEvent): Event is polymorphic, so this is the most-derived class.
TypeIdOfEvent(ev) == ev.dyn

Range(s) == {s[i] : i \in 1..Len(s)}

----------------------------------------------------------------------------
\* The containers.

\* An unordered_map with no keys.
EmptyMap == [k \in {} |-> <<>>]

\* myObservers == nullptr.
Nullptr == [alloc |-> FALSE, map |-> EmptyMap]

\* new std::unordered_map<...>().
NewMap == [alloc |-> TRUE, map |-> EmptyMap]

\* unordered_map::operator[]: inserts an empty vector under k when k is absent.
MapIndex(m, k) ==
  IF k \in DOMAIN m THEN m
  ELSE [x \in DOMAIN m \cup {k} |-> IF x = k THEN <<>> ELSE m[x]]

\* unordered_map::erase(key).
MapErase(m, k) == [x \in DOMAIN m \ {k} |-> m[x]]

\* unordered_map::find(key) != end().
MapFind(m, k) == k \in DOMAIN m

\* std::find(begin, end, v): index of the first match, Len+1 for end().
StdFind(vec, v) ==
  IF \E i \in 1..Len(vec) : vec[i] = v
  THEN CHOOSE i \in 1..Len(vec) : vec[i] = v /\ \A j \in 1..(i - 1) : vec[j] # v
  ELSE Len(vec) + 1

\* The loop of std::remove: elements that differ from v are moved down to
\* first; the slots from the returned iterator on keep what they held.
RECURSIVE RemoveLoop(_, _, _, _)
RemoveLoop(vec, first, i, v) ==
  IF i > Len(vec) THEN [vec |-> vec, it |-> first]
  ELSE IF vec[i] # v
       THEN RemoveLoop([vec EXCEPT ![first] = vec[i]], first + 1, i + 1, v)
       ELSE RemoveLoop(vec, first, i + 1, v)

\* std::remove(begin, end, v).
StdRemove(vec, v) ==
  LET first == StdFind(vec, v)
  IN IF first = Len(vec) + 1 THEN [vec |-> vec, it |-> first]
     ELSE RemoveLoop(vec, first, first + 1, v)

\* vector::erase(it): erases the single element at it.
VecErase(vec, it) == SubSeq(vec, 1, it - 1) \o SubSeq(vec, it + 1, Len(vec))

\* vector::push_back.
PushBack(vec, v) == Append(vec, v)

\* The vector stored under key c ( <<>> when there is none ).
ObserversOf(reg, c) == IF reg.alloc /\ c \in DOMAIN reg.map THEN reg.map[c] ELSE <<>>

----------------------------------------------------------------------------
\* Subject::Attach<EventClass>(anObserver).

\* Attach without the std::find check.
AttachRegNoFind(reg, c, h) ==
  LET r1 == IF ~reg.alloc THEN NewMap ELSE reg
      m1 == MapIndex(r1.map, TypeIdOfClass(c))
  IN [alloc |-> TRUE, map |-> [m1 EXCEPT ![c] = PushBack(m1[c], h)]]

\* Attach inserting at the front instead of push_back.
AttachRegFront(reg, c, h) ==
  LET r1 == IF ~reg.alloc THEN NewMap ELSE reg
      m1 == MapIndex(r1.map, TypeIdOfClass(c))
  IN IF StdFind(m1[c], h) # Len(m1[c]) + 1
     THEN [alloc |-> TRUE, map |-> m1]
     ELSE [alloc |-> TRUE, map |-> [m1 EXCEPT ![c] = <<h>> \o m1[c]]]

\* The registry after Attach<c>(h).
AttachReg(reg, c, h) ==
  LET r1 == IF ~reg.alloc THEN NewMap ELSE reg
      m1 == MapIndex(r1.map, TypeIdOfClass(c))
      observers == m1[TypeIdOfClass(c)]
      it == StdFind(observers, h)
  IN IF it # Len(observers) + 1
     THEN [alloc |-> TRUE, map |-> m1]
     ELSE [alloc |-> TRUE, map |-> [m1 EXCEPT ![TypeIdOfClass(c)] = PushBack(observers, h)]]

\* The branch Attach<c>(h) takes (the _DEBUG diagnostic it prints).
AttachDiag(reg, c, h) ==
  IF StdFind(ObserversOf(reg, TypeIdOfClass(c)), h) # Len(ObserversOf(reg, TypeIdOfClass(c))) + 1
  THEN "already attached"
  ELSE "attached"

----------------------------------------------------------------------------
\* Subject::Detach<EventClass>(anObserver).

\* Detach that never erases the key of an emptied vector.
DetachRegKeepKey(reg, c, h) ==
  IF ~reg.alloc THEN reg
  ELSE LET m1 == MapIndex(reg.map, TypeIdOfClass(c))
           r == StdRemove(m1[c], h)
           observers == IF r.it # Len(r.vec) + 1 THEN VecErase(r.vec, r.it) ELSE r.vec
       IN [alloc |-> TRUE, map |-> [m1 EXCEPT ![c] = observers]]

\* Detach that never deletes the emptied map.
DetachRegNoDelete(reg, c, h) ==
  IF ~reg.alloc THEN reg
  ELSE LET m1 == MapIndex(reg.map, TypeIdOfClass(c))
           r == StdRemove(m1[c], h)
           observers == IF r.it # Len(r.vec) + 1 THEN VecErase(r.vec, r.it) ELSE r.vec
           m2 == [m1 EXCEPT ![c] = observers]
       IN [alloc |-> TRUE, map |-> IF observers = <<>> THEN MapErase(m2, c) ELSE m2]

\* Detach that erases the first element instead of the one std::remove returns.
DetachRegEraseBegin(reg, c, h) ==
  IF ~reg.alloc THEN reg
  ELSE LET m1 == MapIndex(reg.map, TypeIdOfClass(c))
           r == StdRemove(m1[c], h)
           observers == IF r.it # Len(r.vec) + 1 THEN VecErase(m1[c], 1) ELSE r.vec
           m2 == [m1 EXCEPT ![c] = observers]
           m3 == IF observers = <<>> THEN MapErase(m2, c) ELSE m2
       IN IF DOMAIN m3 = {} THEN Nullptr ELSE [alloc |-> TRUE, map |-> m3]

\* The registry after Detach<c>(h).
DetachReg(reg, c, h) ==
  IF ~reg.alloc THEN reg
  ELSE LET m1 == MapIndex(reg.map, TypeIdOfClass(c))
           r == StdRemove(m1[TypeIdOfClass(c)], h)
           observers == IF r.it # Len(r.vec) + 1 THEN VecErase(r.vec, r.it) ELSE r.vec
           m2 == [m1 EXCEPT ![TypeIdOfClass(c)] = observers]
           m3 == IF observers = <<>> THEN MapErase(m2, TypeIdOfClass(c)) ELSE m2
       IN IF DOMAIN m3 = {} THEN Nullptr ELSE [alloc |-> TRUE, map |-> m3]

\* The branch Detach<c>(h) takes (the _DEBUG diagnostic it prints).
DetachDiag(reg, c, h) ==
  IF ~reg.alloc THEN "myObservers is nullptr"
  ELSE IF StdRemove(ObserversOf(reg, TypeIdOfClass(c)), h).it # Len(ObserversOf(reg, TypeIdOfClass(c))) + 1
       THEN "detached"
       ELSE "could not be detached"

----------------------------------------------------------------------------
\* Subject::Notify<EventClass>(anEvent).

\* Notify looking the type up with operator[] instead of find.
NotifyRegIndex(reg, ev) ==
  IF ~reg.alloc THEN reg
  ELSE [alloc |-> TRUE, map |-> MapIndex(reg.map, TypeIdOfEvent(ev))]

\* The registry after Notify's null check and lookup: find inserts nothing.
NotifyReg(reg, ev) == reg

\* Notify keyed on the static type of the reference.
NotifyRangeStatic(reg, ev) ==
  IF ~reg.alloc THEN <<>>
  ELSE IF MapFind(reg.map, TypeIdStatic(ev)) THEN reg.map[TypeIdStatic(ev)] ELSE <<>>

\* Notify that also walks the subscribers of the base class Event.
NotifyRangeHierarchical(reg, ev) ==
  IF ~reg.alloc THEN <<>>
  ELSE (IF MapFind(reg.map, TypeIdOfEvent(ev)) THEN reg.map[TypeIdOfEvent(ev)] ELSE <<>>)
       \o (IF TypeIdOfEvent(ev) # "Event" /\ MapFind(reg.map, "Event")
           THEN reg.map["Event"] ELSE <<>>)

\* The vector the range-for of Notify walks: it->second when the null check
\* passes and find succeeds, nothing otherwise.
NotifyRange(reg, ev) ==
  IF ~reg.alloc THEN <<>>
  ELSE IF MapFind(reg.map, TypeIdOfEvent(ev)) THEN reg.map[TypeIdOfEvent(ev)] ELSE <<>>

\* The branch Notify takes.
NotifyDiag(reg, ev) ==
  IF ~reg.alloc THEN "myObservers is nullptr"
  ELSE IF MapFind(reg.map, TypeIdOfEvent(ev)) THEN "found" ELSE "no observers"

\* What a callback does: return normally, or throw.
Behaviours == {"return", "throw"}

\* No range-for in progress.
NoFrame == [it |-> 0, end |-> 0]

\* A fan-out that swallows the exception and goes on to the next observer.
AfterCallbackCatch(fr, b) ==
  IF fr.it + 1 = fr.end
  THEN [pc |-> "idle", frame |-> NoFrame, result |-> "returned"]
  ELSE [pc |-> "notify", frame |-> [fr EXCEPT !.it = fr.it + 1], result |-> "pending"]

\* Control after observer->OnNotify(anEvent) at position fr.it: an exception
\* leaves Notify (there is no try block); a return advances the iterator, and
\* Notify returns when it reaches end.
AfterCallback(fr, b) ==
  IF b = "throw"
  THEN [pc |-> "idle", frame |-> NoFrame, result |-> "threw"]
  ELSE IF fr.it + 1 = fr.end
       THEN [pc |-> "idle", frame |-> NoFrame, result |-> "returned"]
       ELSE [pc |-> "notify", frame |-> [fr EXCEPT !.it = fr.it + 1], result |-> "pending"]

----------------------------------------------------------------------------
\* State.

VARIABLES
  myObservers,  \* Subject::myObservers: [alloc, map]
  pc,           \* "idle", "notify" while the range-for of Notify runs; "callback"
                \* inside a callback that called back, "crashed" once the process died
  frame,        \* the range-for's iterators: it (next position) and end
  op,           \* the operation called last: its name, the EventClass of the call
                \* (static), the class of the object (dyn), the handle, the branch
  calls,        \* the OnNotify invocations the last operation made, in order,
                \* each with the observer invoked and what its callback did
  result,       \* how the last operation ended: "returned", "threw"; "pending"
  subscribed,   \* history: per class, the handles in order of subscription
  lastDetached, \* history: the <<class, handle>> unsubscribed last and not
                \* subscribed again since, <<>> when there is none
  dangling,     \* the range-for's iterators were invalidated by a callback
  reentry,      \* what the last callback called: "Attach", "Detach" or "none"
  destroyed,    \* the observers deleted by their owner
  before,       \* history: the registry before the last Attach of a new handle
  buffer        \* the storage the range-for's iterators point into: the cells
                \* from begin to end as they read now, and whether the vector
                \* has left that storage

vars == <<myObservers, pc, frame, op, calls, result, subscribed, lastDetached,
          dangling, reentry, destroyed, before, buffer>>

\* What the operations of Subject never touch on their own.
aux == <<dangling, reentry, destroyed, before, buffer>>

\* The callback called neither Attach nor Detach.
NoCall == "none"

\* No range-for is running.
NoBuffer == [cells |-> <<>>, freed |-> FALSE]

\* No Attach of a new handle is remembered.
NoBefore == [stage |-> "none", reg |-> Nullptr]

\* The observers invoked by the last operation, in order.
Invoked == [i \in 1..Len(calls) |-> calls[i].observer]

\* The history of subscriptions: Attach<c>(h) of a handle not in it puts h
\* last, Detach<c>(h) takes h out.
Subscribe(sub, c, h) ==
  IF h \in Range(sub[c]) THEN sub ELSE [sub EXCEPT ![c] = Append(sub[c], h)]
Unsubscribe(sub, c, h) ==
  [sub EXCEPT ![c] = SelectSeq(sub[c], LAMBDA x : x # h)]

Init ==
  /\ myObservers = Nullptr
  /\ pc = "idle"
  /\ frame = NoFrame
  /\ op = [name |-> "none", static |-> "Event", dyn |-> "Event", observer |-> 0, diag |-> "none"]
  /\ calls = <<>>
  /\ result = "none"
  /\ subscribed = [c \in EventTypes |-> <<>>]
  /\ lastDetached = <<>>
  /\ dangling = FALSE
  /\ reentry = NoCall
  /\ destroyed = {}
  /\ before = NoBefore
  /\ buffer = NoBuffer

\* Attach<c>(h) on the state of Subject.
AttachStep(c, h) ==
  /\ pc = "idle"
  /\ myObservers' = AttachReg(myObservers, c, h)
  /\ op' = [name |-> "Attach", static |-> c, dyn |-> c, observer |-> h,
            diag |-> AttachDiag(myObservers, c, h)]
  /\ calls' = <<>>
  /\ result' = "returned"
  /\ subscribed' = Subscribe(subscribed, c, h)
  /\ UNCHANGED <<pc, frame>>

Attach(c, h) ==
  /\ AttachStep(c, h)
  /\ lastDetached' = IF lastDetached = <<c, h>> THEN <<>> ELSE lastDetached
  /\ UNCHANGED aux

\* Detach<c>(h) on the state of Subject.
DetachStep(c, h) ==
  /\ pc = "idle"
  /\ myObservers' = DetachReg(myObservers, c, h)
  /\ op' = [name |-> "Detach", static |-> c, dyn |-> c, observer |-> h,
            diag |-> DetachDiag(myObservers, c, h)]
  /\ calls' = <<>>
  /\ result' = "returned"
  /\ subscribed' = Unsubscribe(subscribed, c, h)
  /\ UNCHANGED <<pc, frame>>

Detach(c, h) ==
  /\ DetachStep(c, h)
  /\ lastDetached' = IF h \in Range(subscribed[c]) THEN <<c, h>> ELSE lastDetached
  /\ UNCHANGED aux

\* Notify up to the first callback: the null check, the lookup, and the
\* begin/end of the range-for. With nothing to walk it returns at once.
NotifyStep(ev) ==
  /\ pc = "idle"
  /\ myObservers' = NotifyReg(myObservers, ev)
  /\ op' = [name |-> "Notify", static |-> ev.static, dyn |-> ev.dyn, observer |-> 0,
            diag |-> NotifyDiag(myObservers, ev)]
  /\ calls' = <<>>
  /\ IF Len(NotifyRange(myObservers, ev)) = 0
     THEN /\ pc' = "idle"
          /\ frame' = NoFrame
          /\ result' = "returned"
     ELSE /\ pc' = "notify"
          /\ frame' = [it |-> 1, end |-> Len(NotifyRange(myObservers, ev)) + 1]
          /\ result' = "pending"
  /\ UNCHANGED subscribed

Notify(ev) ==
  /\ NotifyStep(ev)
  /\ UNCHANGED <<lastDetached, aux>>

\* The observer the range-for is at.
Current ==
  NotifyRange(myObservers, [static |-> op.static, dyn |-> op.dyn])[frame.it]

\* One pass of the loop body: observer->OnNotify(anEvent), with behaviour b.
OnNotifyStep(b) ==
  /\ pc = "notify"
  /\ ~dangling
  /\ calls' = Append(calls, [observer |-> Current, outcome |-> b])
  /\ pc' = AfterCallback(frame, b).pc
  /\ frame' = AfterCallback(frame, b).frame
  /\ result' = AfterCallback(frame, b).result
  /\ UNCHANGED <<myObservers, op, subscribed>>

OnNotify(b) ==
  /\ OnNotifyStep(b)
  /\ UNCHANGED <<lastDetached, aux>>

Next ==
  \/ \E c \in EventTypes, h \in Observers : Attach(c, h)
  \/ \E c \in EventTypes, h \in Observers : Detach(c, h)
  \/ \E ev \in EventRefs : Notify(ev)
  \/ \E b \in Behaviours : OnNotify(b)

Spec == Init /\ [][Next]_vars

----------------------------------------------------------------------------
\* Properties.

\* The last operation was a Notify that ran to its end.
NotifyReturned == op.name = "Notify" /\ result = "returned"

\* No value occurs twice in the sequence.
NoRepeat(seq) == \A i, j \in 1..Len(seq) : i # j => seq[i] # seq[j]

\* C1: a Notify of an event of class C whose callbacks all return invokes
\* exactly the handles subscribed to C, each once, in the order in which they
\* were subscribed.
C1_NotifyInSubscriptionOrder ==
  NotifyReturned => Invoked = subscribed[op.dyn]

\* Handle 1 was subscribed after 2 and 3, and a Notify delivered in that order.
C1_Witness ==
  NotifyReturned /\ Invoked = <<2, 3, 1>>

\* C2: Attach of a handle already subscribed to the class leaves the registry
\* as it was (lists and positions), and a Notify that runs to its end invokes
\* no handle twice.
C2_DuplicateAttachIsNoOp ==
  /\ [][(op'.name = "Attach" /\ op'.observer \in Range(subscribed[op'.dyn]))
          => myObservers' = myObservers]_vars
  /\ [](NotifyReturned => NoRepeat(Invoked))

\* A duplicate Attach of the handle at the head of a list of two or more.
C2_Witness ==
  /\ op.name = "Attach" /\ op.diag = "already attached"
  /\ Len(ObserversOf(myObservers, op.dyn)) >= 2
  /\ ObserversOf(myObservers, op.dyn)[1] = op.observer

\* C3: a Notify of an event of class X invokes only handles subscribed to X.
C3_CategoryIsolation ==
  op.name = "Notify" => Range(Invoked) \subseteq Range(subscribed[op.dyn])

\* A Notify delivered to some handle while another handle, subscribed only to
\* the other class, was left alone.
C3_Witness ==
  /\ NotifyReturned /\ calls # <<>>
  /\ \E c \in EventTypes, h \in Observers :
       /\ c # op.dyn
       /\ h \in Range(subscribed[c])
       /\ h \notin Range(subscribed[op.dyn])
       /\ h \notin Range(Invoked)

\* C4: while <<C, h>> is the pair unsubscribed last and not subscribed again,
\* no Notify of class C invokes h, and a Notify of C that runs to its end
\* invokes every handle still subscribed to C.
C4_DetachedNotNotified ==
  (op.name = "Notify" /\ lastDetached # <<>> /\ lastDetached[1] = op.dyn)
    => /\ lastDetached[2] \notin Range(Invoked)
       /\ \A h \in Observers : h \notin Range(subscribed[op.dyn]) => h \notin Range(Invoked)
       /\ result = "returned" => Range(subscribed[op.dyn]) \subseteq Range(Invoked)

\* O1 and O2 subscribed, O1 unsubscribed, Notify: only O2 is invoked.
C4_Witness ==
  /\ NotifyReturned
  /\ lastDetached = <<op.dyn, 1>>
  /\ Invoked = <<2>>

\* C5: the map is allocated exactly when some subscription is outstanding, an
\* allocated map holds a subscriber, and nothing is left behind a released map.
C5_Lifecycle ==
  /\ myObservers.alloc <=> \E c \in EventTypes : subscribed[c] # <<>>
  /\ myObservers.alloc => \E c \in DOMAIN myObservers.map : myObservers.map[c] # <<>>
  /\ ~myObservers.alloc => myObservers = Nullptr

\* The Detach of the last subscriber of the last class released the map.
C5_Witness ==
  /\ op.name = "Detach" /\ op.diag = "detached"
  /\ ~myObservers.alloc

\* C6: Detach of a pair that is not subscribed leaves the registry as it was,
\* whether the map is null, has no key for the class, or has other handles
\* under it.
C6_DetachAbsentIsNoOp ==
  [][(op'.name = "Detach" /\ op'.observer \notin Range(subscribed[op'.dyn]))
       => myObservers' = myObservers]_vars

\* Detach on a class without a key in an allocated map left no key behind.
C6_Witness ==
  /\ op.name = "Detach" /\ op.diag = "could not be detached"
  /\ myObservers.alloc
  /\ op.dyn \notin DOMAIN myObservers.map

\* C7: a Notify of an event whose class has no subscriber invokes no callback
\* and returns normally, with the map null or holding other classes only.
C7_NoSubscriberNotify ==
  (op.name = "Notify" /\ subscribed[op.dyn] = <<>>)
    => calls = <<>> /\ result = "returned" /\ pc = "idle"

\* A Damage event passed as Event& while only Event has subscribers.
C7_Witness ==
  /\ op.name = "Notify" /\ op.diag = "no observers"
  /\ op.static # op.dyn
  /\ subscribed[op.static] # <<>>
  /\ calls = <<>> /\ result = "returned"

\* C8: no step of a Notify changes the registry: not the null check and
\* lookup, not a callback that returns or throws.
C8_NotifyLeavesRegistry ==
  [][op'.name = "Notify" => myObservers' = myObservers]_vars

\* A Notify that invoked two or more observers and returned.
C8_Witness ==
  NotifyReturned /\ Len(calls) >= 2

\* C9: no vector of the map holds a handle twice.
C9_NoDuplicateHandles ==
  \A c \in DOMAIN myObservers.map : NoRepeat(myObservers.map[c])

\* A duplicate Attach was made on a full list.
C9_Witness ==
  /\ op.name = "Attach" /\ op.diag = "already attached"
  /\ Len(ObserversOf(myObservers, op.dyn)) = NumObservers

\* C10: when a callback throws, Notify ends there with the exception: the
\* thrower is the last observer invoked, the observers before it in the list
\* were invoked once each, those after it were not invoked, and the step left
\* the registry as it was.
C10_ThrowAbortsFanOut ==
  /\ []((\E i \in 1..Len(calls) : calls[i].outcome = "throw")
          => /\ result = "threw" /\ pc = "idle"
             /\ calls[Len(calls)].outcome = "throw"
             /\ \A i \in 1..(Len(calls) - 1) : calls[i].outcome = "return"
             /\ Invoked = SubSeq(subscribed[op.dyn], 1, Len(calls)))
  /\ [][result' = "threw" => myObservers' = myObservers]_vars

\* The second of three subscribers threw: the third was not invoked.
C10_Witness ==
  /\ result = "threw"
  /\ Len(subscribed[op.dyn]) = 3
  /\ Len(calls) = 2

\* C12: every key of the map holds a non-empty vector.
C12_NoEmptyVector ==
  \A c \in DOMAIN myObservers.map : myObservers.map[c] # <<>>

\* A Detach emptied the vector of its class while the other class kept the
\* map alive: the key is gone.
C12_Witness ==
  /\ op.name = "Detach" /\ op.diag = "detached"
  /\ myObservers.alloc
  /\ op.dyn \notin DOMAIN myObservers.map

\* C13: Detach<C>(h) of a subscribed handle turns the vector of C into the
\* same vector without h, the others in the order they had, and leaves the
\* vector of every other class as it was.
C13_DetachRemovesExactlyOne ==
  [][(op'.name = "Detach" /\ op'.observer \in Range(subscribed[op'.dyn]))
       => LET c == op'.dyn
              h == op'.observer
          IN /\ ObserversOf(myObservers', c)
                  = SelectSeq(ObserversOf(myObservers, c), LAMBDA x : x # h)
             /\ Len(ObserversOf(myObservers', c)) = Len(ObserversOf(myObservers, c)) - 1
             /\ \A d \in EventTypes \ {c} :
                  ObserversOf(myObservers', d) = ObserversOf(myObservers, d)]_vars

\* Handle 2 was detached from a class that keeps 3 before 1, and is still
\* subscribed to the other class.
C13_Witness ==
  /\ op.name = "Detach" /\ op.diag = "detached" /\ op.observer = 2
  /\ ObserversOf(myObservers, op.dyn) = <<3, 1>>
  /\ \E d \in EventTypes \ {op.dyn} : 2 \in Range(ObserversOf(myObservers, d))

\* C14: Attach<C>(h) of a handle not subscribed to C leaves the map allocated
\* with a key for C, whose vector is the old one (empty if there was none)
\* with h appended, and leaves the vector of every other class as it was.
C14_AttachAppends ==
  [][(op'.name = "Attach" /\ op'.observer \notin Range(subscribed[op'.dyn]))
       => LET c == op'.dyn
              h == op'.observer
          IN /\ myObservers'.alloc
             /\ c \in DOMAIN myObservers'.map
             /\ ObserversOf(myObservers', c) = Append(ObserversOf(myObservers, c), h)
             /\ \A d \in EventTypes \ {c} :
                  ObserversOf(myObservers', d) = ObserversOf(myObservers, d)]_vars

\* Handle 1 was appended behind 3 and 2.
C14_Witness ==
  /\ op.name = "Attach" /\ op.diag = "attached" /\ op.observer = 1
  /\ ObserversOf(myObservers, op.dyn) = <<3, 2, 1>>

\* C15: a Notify walks the subscribers of the object's own class, in order,
\* whatever the class of the reference it is passed through, and invokes no
\* handle that is subscribed to another class only.
C15_ExactClassDispatch ==
  op.name = "Notify"
    => /\ Len(calls) <= Len(subscribed[op.dyn])
       /\ Invoked = SubSeq(subscribed[op.dyn], 1, Len(calls))
       /\ \A c \in EventTypes \ {op.dyn} :
            \A h \in Range(subscribed[c]) \ Range(subscribed[op.dyn]) :
              h \notin Range(Invoked)

\* A Damage object passed as Event& reached the subscribers of Damage, and a
\* handle subscribed to Event only was not invoked.
C15_Witness ==
  /\ NotifyReturned /\ calls # <<>>
  /\ op.static = "Event" /\ op.dyn = "Damage"
  /\ \E h \in Range(subscribed["Event"]) : h \notin Range(subscribed["Damage"])

----------------------------------------------------------------------------
\* Attach followed at once by Detach of the same pair: the same operations,
\* with the registry an Attach of a new handle found kept in `before`.

AttachRemember(c, h) ==
  /\ AttachStep(c, h)
  /\ before' = IF h \notin Range(subscribed[c])
               THEN [stage |-> "attached", reg |-> myObservers]
               ELSE NoBefore
  /\ UNCHANGED <<lastDetached, dangling, reentry, destroyed, buffer>>

DetachCompare(c, h) ==
  /\ DetachStep(c, h)
  /\ before' = IF before.stage = "attached" /\ op.dyn = c /\ op.observer = h
               THEN [stage |-> "restored", reg |-> before.reg]
               ELSE NoBefore
  /\ UNCHANGED <<lastDetached, dangling, reentry, destroyed, buffer>>

NotifyForget(ev) ==
  /\ NotifyStep(ev)
  /\ before' = NoBefore
  /\ UNCHANGED <<lastDetached, dangling, reentry, destroyed, buffer>>

OnNotifyForget(b) ==
  /\ OnNotifyStep(b)
  /\ UNCHANGED <<lastDetached, dangling, reentry, destroyed, before, buffer>>

NextRoundTrip ==
  \/ \E c \in EventTypes, h \in Observers : AttachRemember(c, h)
  \/ \E c \in EventTypes, h \in Observers : DetachCompare(c, h)
  \/ \E ev \in EventRefs : NotifyForget(ev)
  \/ \E b \in Behaviours : OnNotifyForget(b)

SpecRoundTrip == Init /\ [][NextRoundTrip]_vars

\* C16: Attach<C>(h) of a handle not subscribed to C, followed at once by
\* Detach<C>(h), leaves the registry exactly as it was before the Attach:
\* null if it was null, without a key for C if it had none.
C16_AttachDetachRoundTrip ==
  before.stage = "restored" => myObservers = before.reg

\* The round trip was made on an allocated map that had no key for the class.
C16_Witness ==
  /\ before.stage = "restored"
  /\ op.name = "Detach"
  /\ before.reg.alloc
  /\ op.dyn \notin DOMAIN before.reg.map

----------------------------------------------------------------------------
\* Callbacks that call Attach or Detach on the class being published.

\* Attach / Detach as a callback can call them, with the handle.
ReentrantCalls == {"Attach", "Detach"} \X Observers

\* The most subscriptions, over all classes, the registry is followed with
\* when callbacks call back.
MaxSubscriptions == 3

\* Whether Attach<c>(h) is followed: it adds nothing, or one more
\* subscription can be taken.
Room(c, h) ==
  \/ h \in Range(subscribed[c])
  \/ Len(subscribed["Event"]) + Len(subscribed["Damage"]) < MaxSubscriptions

\* A dispatcher that queues the call until the fan-out is over.
ReentrantRegDeferred(reg, call, c) == reg

\* The registry right after a callback's call: Attach and Detach are the
\* same static functions, and act on myObservers at once.
ReentrantReg(reg, call, c) ==
  IF call[1] = "Attach" THEN AttachReg(reg, c, call[2]) ELSE DetachReg(reg, c, call[2])

\* Whether the call invalidated the iterators of the range-for over the
\* vector of c: push_back and erase both invalidate end(), erasing the key or
\* deleting the map destroys the vector.
Invalidated(reg, after, c) == ObserversOf(reg, c) # ObserversOf(after, c)

\* The cells the range-for walks, after a callback's call on class c. The
\* vector that has left the storage writes to it no more. push_back writes
\* the cell after the last element, unless it has to move the vector to
\* larger storage (moved). erase moves the elements behind the erased one
\* down by one and leaves the last cell as it was; erasing the key destroys
\* the vector and gives the storage back.
BufferAfter(buf, reg, call, c, moved) ==
  LET old == ObserversOf(reg, c)
      new == ObserversOf(ReentrantReg(reg, call, c), c)
  IN IF buf.freed \/ new = old
     THEN buf
     ELSE IF call[1] = "Attach"
          THEN IF moved
               THEN [buf EXCEPT !.freed = TRUE]
               ELSE [buf EXCEPT !.cells = [k \in 1..Len(buf.cells) |->
                                             IF k = Len(new) THEN call[2] ELSE buf.cells[k]]]
          ELSE [cells |-> [k \in 1..Len(buf.cells) |->
                             IF k <= Len(new) THEN new[k] ELSE buf.cells[k]],
                freed |-> new = <<>>]

\* Whether a push_back of the call can find the storage full: not after
\* an erase has left room inside the range being walked.
CanMove(buf, reg, c) == ~buf.freed /\ Len(ObserversOf(reg, c)) >= Len(buf.cells)

\* What the cell at the iterator holds: the observer the loop calls.
Fetch == buffer.cells[frame.it]

\* What the loop can do on invalidated iterators: go on to a callback that
\* returns or throws, or end the process.
UndefinedResults == {"return", "throw", "crash"}

\* The loop body enters the callback of the observer at the iterator, and
\* the callback calls Attach / Detach on the class being published.
OnNotifyReentrant(call, moved) ==
  /\ pc = "notify"
  /\ call[1] = "Attach" => Room(op.dyn, call[2])
  /\ moved => (call[1] = "Attach" /\ CanMove(buffer, myObservers, op.dyn))
  /\ myObservers' = ReentrantReg(myObservers, call, op.dyn)
  /\ subscribed' = IF call[1] = "Attach"
                   THEN Subscribe(subscribed, op.dyn, call[2])
                   ELSE Unsubscribe(subscribed, op.dyn, call[2])
  /\ buffer' = BufferAfter(buffer, myObservers, call, op.dyn, moved)
  /\ dangling' = (dangling \/ Invalidated(myObservers, ReentrantReg(myObservers, call, op.dyn), op.dyn))
  /\ calls' = Append(calls, [observer |-> Fetch, outcome |-> "running"])
  /\ reentry' = call[1]
  /\ pc' = "callback"
  /\ UNCHANGED <<frame, result, op, lastDetached, destroyed, before>>

\* That callback returns or throws; after a return the loop does ++it and
\* it != end on the iterators it cached, whatever happened to the vector.
\* On invalidated iterators that is undefined behaviour: the builds compare
\* the pointers and go on, a checked build ends the process there (crash).
CallbackEnd(b) ==
  /\ pc = "callback"
  /\ b = "crash" => dangling
  /\ IF b = "crash"
     THEN /\ pc' = "crashed"
          /\ frame' = NoFrame
          /\ result' = "crashed"
          /\ myObservers' = Nullptr
          /\ subscribed' = [c \in EventTypes |-> <<>>]
          /\ calls' = <<>>
          /\ dangling' = FALSE /\ reentry' = NoCall /\ buffer' = NoBuffer
     ELSE /\ calls' = [calls EXCEPT ![Len(calls)].outcome = b]
          /\ pc' = AfterCallback(frame, b).pc
          /\ frame' = AfterCallback(frame, b).frame
          /\ result' = AfterCallback(frame, b).result
          /\ IF AfterCallback(frame, b).pc = "idle"
             THEN dangling' = FALSE /\ reentry' = NoCall /\ buffer' = NoBuffer
             ELSE UNCHANGED <<dangling, reentry, buffer>>
          /\ UNCHANGED <<myObservers, subscribed>>
  /\ UNCHANGED <<op, lastDetached, destroyed, before>>

\* A pass of the loop on invalidated iterators, the callback making no call:
\* undefined behaviour. The builds read the cell and call what it holds; a
\* checked build, or a cell of storage given back, can end the process, and
\* its memory with it.
Undefined(b) ==
  /\ pc = "notify"
  /\ dangling
  /\ IF b = "crash"
     THEN /\ pc' = "crashed"
          /\ frame' = NoFrame
          /\ result' = "crashed"
          /\ myObservers' = Nullptr
          /\ subscribed' = [c \in EventTypes |-> <<>>]
          /\ calls' = <<>>
          /\ dangling' = FALSE /\ reentry' = NoCall /\ buffer' = NoBuffer
     ELSE /\ calls' = Append(calls, [observer |-> Fetch, outcome |-> b])
          /\ pc' = AfterCallback(frame, b).pc
          /\ frame' = AfterCallback(frame, b).frame
          /\ result' = AfterCallback(frame, b).result
          /\ IF AfterCallback(frame, b).pc = "idle"
             THEN dangling' = FALSE /\ reentry' = NoCall /\ buffer' = NoBuffer
             ELSE reentry' = NoCall /\ UNCHANGED <<dangling, buffer>>
          /\ UNCHANGED <<myObservers, subscribed>>
  /\ UNCHANGED <<op, lastDetached, destroyed, before>>

\* The operations of Subject, between and around such callbacks.
AttachPlain(c, h) ==
  /\ Room(c, h)
  /\ AttachStep(c, h)
  /\ UNCHANGED <<lastDetached, aux>>

DetachPlain(c, h) ==
  /\ DetachStep(c, h)
  /\ UNCHANGED <<lastDetached, aux>>

\* The range-for takes begin() and end() of the vector found.
NotifyPlain(ev) ==
  /\ NotifyStep(ev)
  /\ buffer' = [cells |-> NotifyRange(myObservers, ev), freed |-> FALSE]
  /\ UNCHANGED <<lastDetached, dangling, reentry, destroyed, before>>

\* A pass on valid iterators, the callback making no call.
OnNotifyPlain(b) ==
  /\ OnNotifyStep(b)
  /\ reentry' = NoCall
  /\ buffer' = IF AfterCallback(frame, b).pc = "idle" THEN NoBuffer ELSE buffer
  /\ UNCHANGED <<lastDetached, dangling, destroyed, before>>

NextReentrant ==
  \/ \E c \in EventTypes, h \in Observers : AttachPlain(c, h)
  \/ \E c \in EventTypes, h \in Observers : DetachPlain(c, h)
  \/ \E ev \in EventRefs : NotifyPlain(ev)
  \/ \E b \in Behaviours : OnNotifyPlain(b)
  \/ \E call \in ReentrantCalls, moved \in BOOLEAN : OnNotifyReentrant(call, moved)
  \/ \E b \in UndefinedResults : CallbackEnd(b)
  \/ \E b \in UndefinedResults : Undefined(b)

SpecReentrant == Init /\ [][NextReentrant]_vars

\* A callback has called Attach or Detach and has not come back yet.
ReenteredInFanOut == pc = "callback"

\* C11: when a callback calls Attach or Detach on the class being published,
\* the call has acted on the registry while the fan-out is still in progress
\* (vector, key and map allocation are those of the calls made so far); the
\* range-for walks that vector and no copy, so the cells ahead of it read
\* what the calls wrote, and its iterators are invalid once a call has
\* changed the vector.
C11_ReentrantModificationUnprotected ==
  ReenteredInFanOut
    => /\ \A c \in EventTypes : ObserversOf(myObservers, c) = subscribed[c]
       /\ myObservers.alloc <=> \E c \in EventTypes : subscribed[c] # <<>>
       /\ Len(ObserversOf(myObservers, op.dyn)) # frame.end - 1 => dangling
       /\ ~buffer.freed
            => \A k \in 1..Len(buffer.cells) :
                 k <= Len(subscribed[op.dyn]) => buffer.cells[k] = subscribed[op.dyn][k]

\* The only subscriber detached itself in its callback: the map is deleted
\* while that callback, and so the fan-out, has not finished.
C11_Witness ==
  /\ ReenteredInFanOut
  /\ reentry = "Detach"
  /\ Len(calls) = 1
  /\ ~myObservers.alloc
  /\ dangling
  /\ buffer.freed

----------------------------------------------------------------------------
\* Observers deleted by their owner while still attached. Subject holds
\* plain Observer* and is told nothing.

\* The observers whose deletion is followed. Observers are interchangeable
\* (no operation looks at the value of a pointer), so one stands for any.
Deletable == {1}

\* The owner deletes observer h without calling Detach for it.
Destroy(h) ==
  /\ pc = "idle"
  /\ h \notin destroyed
  /\ \E c \in EventTypes : h \in Range(ObserversOf(myObservers, c))
  /\ destroyed' = destroyed \cup {h}
  /\ UNCHANGED <<myObservers, pc, frame, op, calls, result, subscribed, lastDetached,
                 dangling, reentry, before, buffer>>

AttachAny(c, h) ==
  /\ AttachStep(c, h)
  /\ UNCHANGED <<lastDetached, aux>>

\* Detach takes the pointer out; the observer it pointed to stays deleted.
DetachAny(c, h) ==
  /\ DetachStep(c, h)
  /\ UNCHANGED <<lastDetached, aux>>

NotifyAny(ev) ==
  /\ NotifyStep(ev)
  /\ UNCHANGED <<lastDetached, aux>>

\* The loop body on an observer that is alive.
OnNotifyLive(b) ==
  /\ pc = "notify"
  /\ Current \notin destroyed
  /\ OnNotifyStep(b)
  /\ UNCHANGED <<lastDetached, aux>>

\* What the virtual call through a pointer to a deleted observer can do.
StaleOutcomes == {"return", "throw", "crash"}

\* The loop body on a deleted observer: the call is made all the same, and is
\* undefined behaviour. It may run the old callback, or end the process. The
\* entry of such a call is marked stale.
OnNotifyStale(b) ==
  /\ pc = "notify"
  /\ ~dangling
  /\ Current \in destroyed
  /\ IF b = "crash"
     THEN /\ pc' = "crashed"
          /\ frame' = NoFrame
          /\ result' = "crashed"
          /\ myObservers' = Nullptr
          /\ subscribed' = [c \in EventTypes |-> <<>>]
          /\ calls' = <<>>
          /\ destroyed' = {}
     ELSE /\ calls' = Append(calls, [observer |-> Current, outcome |-> b, stale |-> TRUE])
          /\ pc' = AfterCallback(frame, b).pc
          /\ frame' = AfterCallback(frame, b).frame
          /\ result' = AfterCallback(frame, b).result
          /\ UNCHANGED <<myObservers, subscribed, destroyed>>
  /\ UNCHANGED <<op, lastDetached, dangling, reentry, before, buffer>>

NextDestroy ==
  \/ \E c \in EventTypes, h \in Observers : AttachAny(c, h)
  \/ \E c \in EventTypes, h \in Observers : DetachAny(c, h)
  \/ \E ev \in EventRefs : NotifyAny(ev)
  \/ \E b \in Behaviours : OnNotifyLive(b)
  \/ \E b \in StaleOutcomes : OnNotifyStale(b)
  \/ \E h \in Deletable : Destroy(h)

SpecDestroy == Init /\ [][NextDestroy]_vars

\* C17: every handle subscribed to a class by an Attach and not taken out
\* since by a Detach of that class and that handle is in the vector of the
\* class, its observer deleted or not, whatever other operations were made
\* in between; and every Notify of the class that runs to its end invokes it.
C17_OnlyDetachRemoves ==
  \A c \in EventTypes : \A h \in Range(subscribed[c]) :
    /\ h \in Range(ObserversOf(myObservers, c))
    /\ (NotifyReturned /\ op.dyn = c) => h \in Range(Invoked)

\* A Notify ran to its end and, among its calls, made one through the
\* pointer of an observer that had been deleted without a Detach.
C17_Witness ==
  /\ NotifyReturned
  /\ Len(calls) >= 2
  /\ \E i \in 1..Len(calls) : "stale" \in DOMAIN calls[i] /\ calls[i].observer \in destroyed

====
